---- MODULE Spec2Model ----
(***************************************************************************)
(* Rainbow: wavetable FIR convolution effect (src/rainbow.cpp).            *)
(*                                                                         *)
(* The engine is modelled as a state machine over the fields of            *)
(* _rainbowAlgorithm and _rainbow_DTC.  Floating point values are held in  *)
(* fixed point (integers over a stated unit); array sizes are those of the *)
(* source scaled by 2^(6 - KernelLog2), which keeps every structural       *)
(* relation of the source (powers of two, delay line = 2 * largest kernel, *)
(* loop stride 4).                                                         *)
(***************************************************************************)
EXTENDS Integers, Sequences, FiniteSets, TLC

(***************************************************************************)
(* CONFIGURATION                                                           *)
(***************************************************************************)

\* log2 of the smallest kernel size: 6 in the source (64); scaled down here.
KernelLog2 == 2

RECURSIVE Pow2(_)
Pow2(n) == IF n = 0 THEN 1 ELSE 2 * Pow2(n - 1)

\* kKernelSizes[] = { 64, 128, 256, 512 }, as 2^KernelLog2 * {1, 2, 4, 8}.
kKernelSizes == [i \in 0..3 |-> Pow2(KernelLog2 + i)]
kNumKernelSizes == 4
kMaxKernelSize == kKernelSizes[kNumKernelSizes - 1]
kMaxChannels == 12

\* Number of channels the model instantiates (specification "Channels").
NumCh == 2
Channels == 0..(NumCh - 1)

\* Host buses (28 on the hardware); default routing uses 1+ch and 13+ch.
NumBuses == 14
kDefaultOutputBus == 13
Buses == 1..NumBuses

\* kCrossfadeRate = 1 / kCrossfadeDen (2400 in the source; scaled down).
kCrossfadeDen == 6

\* Frames per block are numFramesBy4 << 2; the model draws numFramesBy4
\* from 1..MaxFramesBy4.
MaxFramesBy4 == 1

Max(a, b) == IF a > b THEN a ELSE b
Min(a, b) == IF a < b THEN a ELSE b
Abs(a) == IF a < 0 THEN -a ELSE a

\* A clamp that forgets the upper end of the enum range.
ClampKernelIndex_LowOnly(x) == Max(0, x)

\* The kernel size index, clamped to the enum range.
ClampKernelIndex(x) == Max(0, Min(x, kNumKernelSizes - 1))

\* kKernelSizes[idx]; an index outside the array reads what lies beside it.
KernelSizeAt(idx) ==
    IF idx \in DOMAIN kKernelSizes THEN kKernelSizes[idx] ELSE 3

(***************************************************************************)
(* PARAMETER DEFINITIONS                                                   *)
(***************************************************************************)

kParamWavetable == 0
kParamIndex == 1
kParamSpread == 2
kParamDepth == 3
kParamGain == 4
kParamSaturation == 5
kParamKernelSize == 6
kNumSharedParams == 7
kParamInput == 0
kParamOutput == 1
kParamOutputMode == 2
kParamsPerChannel == 3

BaseParam(ch) == kNumSharedParams + ch * kParamsPerChannel
NumParams(n) == kNumSharedParams + n * kParamsPerChannel

(***************************************************************************)
(* The wavetable buffer.  Its content is named by what the load subsystem  *)
(* last put there: a wavetable index >= 0, BufZero after construct's       *)
(* memset, BufLoading while a load is populating it, BufFailed after a     *)
(* load that ended in error.  WavetableSample gives the int16 at an        *)
(* offset; offsets before the buffer (a negative wave) read foreign memory,*)
(* whose value reaches no tap: that wave's interpolation weight is 0.      *)
(***************************************************************************)
BufZero == -1
BufLoading == -2
BufFailed == -3

\* kWavetableBufferSize = 256 * 2048 samples, scaled with the kernel sizes.
kWavetableBufferSize == 256 * 4 * kMaxKernelSize

WavetableSample(content, mip, offset) ==
    IF offset < 0 \/ offset >= kWavetableBufferSize THEN 7777
    ELSE IF content = BufZero THEN 0
    ELSE LET seed == (content + 4) * 7 + (IF mip THEN 0 ELSE 3)
         IN  (((seed * (offset + 1) + offset * offset) % 41) - 20) * 100

(***************************************************************************)
(* Fixed point units.                                                      *)
(*   kernel taps:      1/TapOne    (raw int16 / 32768 before normalising)  *)
(*   audio samples:    1/SampleOne                                         *)
(*   depth, saturation: percent (v / 100.0f)                               *)
(*   gain:             1/GainOne                                           *)
(*   wave position:    1/PosDen(n), n the channel count                    *)
(***************************************************************************)
TapOne == 256
SampleOne == 64
GainOne == 100
kInt16Scale == 32768

PosUnit(n) == Max(n - 1, 1)
PosDen(n) == 10000 * PosUnit(n)

RECURSIVE SumRange(_, _, _)
SumRange(f, lo, hi) ==
    IF lo > hi THEN 0
    ELSE IF lo = hi THEN f[lo]
    ELSE LET mid == (lo + hi) \div 2
         IN  SumRange(f, lo, mid) + SumRange(f, mid + 1, hi)

(***************************************************************************)
(* ALGORITHM STRUCTURES: _rainbowAlgorithm and _rainbow_DTC                *)
(***************************************************************************)
VARIABLES
    v,                  \* the host's parameter values, pThis->v[]
    numChannels,
    cardMounted,
    awaitingCallback,
    wavetableLoaded,
    currentIndexParam,  \* per mille; -1000 is -1.0f
    request,            \* _NT_wavetableRequest: index, numWaves, usingMipMaps, error
    wavetableBuffer,    \* content of the shared int16 buffer
    loadPhase,          \* the load subsystem: "none", "reading", "ready"
    kernels,            \* dtc->kernels[ch][i]
    newKernels,         \* dtc->newKernels[ch][i]
    crossfadeMix,       \* dtc->crossfadeMix, in units of kCrossfadeRate
    crossfading,
    depth,
    gain,
    saturation,
    kernelSize,
    kernelMask,
    channels,           \* dtc->channels[ch]: delayLine, writePos
    busFrames,          \* the host's buses as left by the last step
    sram,               \* the working memory block as construct lays it out
    callbackPos,        \* where wavetableCallback stands when it is preempted
    \* History variables: they record what happened and steer nothing.
    lastOp,             \* the handler that ran last
    lastBlock,          \* per channel, what the last step computed
    fed,                \* per channel, every input sample so far and the
                        \* kernelSize it was processed with
    xfSamples,          \* driver samples processed since the crossfade began
    budget              \* host events used: loads, params, steps

TapIndex == 0..(kMaxKernelSize - 1)
ZeroKernel == [i \in TapIndex |-> 0]

(***************************************************************************)
(* HELPER FUNCTIONS                                                        *)
(***************************************************************************)

\* buildKernelAtIndex: dest with taps [0, size) rebuilt from the buffer at
\* wave position pos / PosDen(numChannels); size is dtc->kernelSize.
buildKernelAtIndex(dest, pos, size) ==
    LET den == PosDen(numChannels)
        indexParam == Max(0, Min(den, pos))
        nw == request.numWaves
        \* (numWaves - 1) - 0.0001f
        top == (nw - 1) * den - PosUnit(numChannels)
        offset == Max(0, Min(indexParam * (nw - 1), top))
        wave0 == offset \div den
        wave1 == Min(wave0 + 1, nw - 1)
        frac == offset % den
        mip0 == size * (nw + wave0)
        mip1 == size * (nw + wave1)
        raw == [i \in 0..(size - 1) |->
                  LET v0 == WavetableSample(wavetableBuffer, request.usingMipMaps, mip0 + i)
                      v1 == WavetableSample(wavetableBuffer, request.usingMipMaps, mip1 + i)
                  IN  v0 + (frac * (v1 - v0)) \div den]
        sum == SumRange([i \in 0..(size - 1) |-> Abs(raw[i])], 0, size - 1)
    IN  [i \in TapIndex |->
            IF i >= size THEN dest[i]
            ELSE IF sum * 1000 > kInt16Scale
                 THEN (raw[i] * TapOne) \div sum
                 ELSE (raw[i] * TapOne) \div kInt16Scale]

\* A buildAllKernels that always takes the shared-kernel branch.
buildAllKernels_NoSpread(ks, vv, size) ==
    LET k0 == buildKernelAtIndex(ks[0], vv[kParamIndex] * 10 * PosUnit(numChannels), size)
    IN  [ch \in DOMAIN ks |->
            IF ch = 0 THEN k0
            ELSE IF ch < numChannels
                 THEN [i \in TapIndex |-> IF i < size THEN k0[i] ELSE ks[ch][i]]
                 ELSE ks[ch]]

\* buildAllKernels: the kernel set ks after the call, one kernel per channel,
\* from the parameter values vv and dtc->kernelSize = size.
buildAllKernels(ks, vv, size) ==
    LET m == PosUnit(numChannels)
        indexParam == vv[kParamIndex] * 10 * m
        k0 == buildKernelAtIndex(ks[0], indexParam, size)
    IN  IF vv[kParamSpread] < 1 \/ numChannels = 1
        THEN [ch \in DOMAIN ks |->
                IF ch = 0 THEN k0
                ELSE IF ch < numChannels
                     THEN [i \in TapIndex |-> IF i < size THEN k0[i] ELSE ks[ch][i]]
                     ELSE ks[ch]]
        ELSE [ch \in DOMAIN ks |->
                IF ch < numChannels
                THEN buildKernelAtIndex(ks[ch],
                        indexParam + vv[kParamSpread] * 5 * (2 * ch - (numChannels - 1)),
                        size)
                ELSE ks[ch]]

\* Soft saturation.  tanh is the Pade approximant y (27 + y^2) / (27 + 9 y^2),
\* clipped to +-1 beyond |y| >= 3, over the sample unit.
Tanh(y) ==
    IF y >= 3 * SampleOne THEN SampleOne
    ELSE IF y <= -3 * SampleOne THEN -SampleOne
    ELSE (y * (27 * SampleOne * SampleOne + y * y))
            \div (27 * SampleOne * SampleOne + 9 * y * y)

\* softSaturate(x, amount), amount in percent.
softSaturate(x, amount) ==
    IF amount < 1 THEN x
    ELSE LET drive == 100 + amount * 4      \* in percent: 1x to 5x
         IN  (Tanh((x * drive) \div 100) * SampleOne)
                \div Tanh((SampleOne * drive) \div 100)

\* pow(10, dB / 20) for the gain settings the model uses (v in tenths of dB).
GainOf(tenthsDb) ==
    CASE tenthsDb = -240 -> 6
      [] tenthsDb = -60 -> 50
      [] tenthsDb = 0 -> GainOne
      [] tenthsDb = 60 -> 200
      [] tenthsDb = 240 -> 1585

RECURSIVE BitAnd(_, _)
BitAnd(a, b) ==
    IF a = 0 \/ b = 0 THEN 0
    ELSE (a % 2) * (b % 2) + 2 * BitAnd(a \div 2, b \div 2)

\* updateKernel gets past its early returns.
UpdateKernelBuilds ==
    /\ ~(~wavetableLoaded \/ request.error)
    /\ ~(~request.usingMipMaps \/ request.numWaves = 0)

\* updateKernel: the active set after the call.
updateKernel(vv, size) ==
    IF UpdateKernelBuilds THEN buildAllKernels(kernels, vv, size) ELSE kernels

\* Whether updateKernelWithCrossfade gets past its early returns.
CrossfadeStarts ==
    ~request.error /\ request.usingMipMaps /\ request.numWaves # 0

(***************************************************************************)
(* step: the per-block audio path                                          *)
(***************************************************************************)

\* delay[idx].  A read outside the array is undefined in C; it is given the
\* value 0 here, and the index claims show that no reachable block makes one.
DelayRead(delay, idx) == IF idx \in DOMAIN delay THEN delay[idx] ELSE 0

\* The dot product of one kernel against the delay line window that ends at
\* x0 = wp + kernelSize, scanning downwards (4 accumulators in the source).
Convolve(delay, x0, h, size) ==
    SumRange([k \in 0..(size - 1) |-> DelayRead(delay, x0 - k) * h[k]], 0, size - 1)
        \div TapOne

\* const float* x = &delay[wp + kernelSize]: where the scan starts.
ScanStart(wp, size) == wp + size

\* The delay-line indices one sample touches: the two writes and, when the
\* block convolves, x[0] down to x[-(kernelSize - 1)].
DelayIndices(wp, size, doConvolve) ==
    {wp, wp + size}
    \cup (IF doConvolve THEN {ScanStart(wp, size) - k : k \in 0..(size - 1)} ELSE {})

\* The kernel indices one convolution reads: h[k] .. h[k + 3] for
\* k = 0, 4, ... below kernelSize.
TapIndices(size, doConvolve) ==
    IF doConvolve
    THEN UNION {{k, k + 1, k + 2, k + 3} : k \in {q \in 0..(size - 1) : q % 4 = 0}}
    ELSE {}

\* A write at the cursor only.
DualWrite_CursorOnly(delay, wp, size, dry) == [delay EXCEPT ![wp] = dry]

\* delay[wp] = dry; delay[wp + kernelSize] = dry;
DualWrite(delay, wp, size, dry) == [delay EXCEPT ![wp] = dry, ![wp + size] = dry]

\* A cursor advance without the mask.
AdvanceCursor_NoMask(wp, mask) == wp + 1

\* wp = (wp + 1) & kernelMask
AdvanceCursor(wp, mask) == BitAnd(wp + 1, mask)

\* A dry/wet mix with the two weights exchanged.
DryWetMix_Swapped(dry, wet, d) == (wet * (100 - d) + dry * d) \div 100

\* fmaf(dry, dryMix, wet * depth) with dryMix = 1 - depth, depth in percent.
DryWetMix(dry, wet, d) == (dry * (100 - d) + wet * d) \div 100

\* An output write with the sense of the mode flag inverted.
OutputWrite_Inverted(replace, prior, mixed) ==
    IF replace THEN prior + mixed ELSE mixed

\* if (replace) out[i] = mixed; else out[i] += mixed;
OutputWrite(replace, prior, mixed) ==
    IF replace THEN mixed ELSE prior + mixed

\* One sample of one channel.  st holds the channel's delay line and write
\* position, the channel's localMix and the buses.
ProcessSample(st, ch, i, blk) ==
    LET inBus == v[BaseParam(ch) + kParamInput]
        outBus == v[BaseParam(ch) + kParamOutput]
        replace == v[BaseParam(ch) + kParamOutputMode] # 0
        wp == st.wp
        dry == st.bus[inBus][i]
        delay == DualWrite(st.delay, wp, blk.kernelSize, dry)
        wetOld == Convolve(delay, ScanStart(wp, blk.kernelSize), kernels[ch],
                           blk.kernelSize)
        wetNew == Convolve(delay, ScanStart(wp, blk.kernelSize), newKernels[ch],
                           blk.kernelSize)
        wet == IF blk.doConvolve
               THEN IF blk.crossfading
                    THEN wetOld + ((wetNew - wetOld) * st.mix) \div kCrossfadeDen
                    ELSE wetOld
               ELSE dry
        mix == IF blk.doConvolve /\ blk.crossfading /\ ch = 0
               THEN st.mix + 1 ELSE st.mix
        mixed0 == DryWetMix(dry, wet, blk.depth)
        mixed1 == IF blk.saturation >= 1 THEN softSaturate(mixed0, blk.saturation)
                  ELSE mixed0
        mixed == (mixed1 * blk.gain) \div GainOne
    IN  [delay |-> delay,
         wp |-> AdvanceCursor(wp, blk.kernelMask),
         mix |-> mix,
         bus |-> [st.bus EXCEPT ![outBus] =
                    [st.bus[outBus] EXCEPT ![i] =
                        OutputWrite(replace, st.bus[outBus][i], mixed)]],
         wet |-> Append(st.wet, wet),
         dry |-> Append(st.dry, dry),
         mixed |-> Append(st.mixed, mixed),
         mixUsed |-> Append(st.mixUsed, st.mix),
         cursor |-> Append(st.cursor, wp),
         scan |-> Append(st.scan,
                         [k \in 0..(blk.kernelSize - 1) |->
                            DelayRead(delay, ScanStart(wp, blk.kernelSize) - k)]),
         touched |-> st.touched
                     \cup DelayIndices(wp, blk.kernelSize, blk.doConvolve),
         taps |-> st.taps \cup TapIndices(blk.kernelSize, blk.doConvolve),
         prior |-> Append(st.prior, st.bus[outBus][i])]

RECURSIVE ProcessFrames(_, _, _, _)
ProcessFrames(st, ch, i, blk) ==
    IF i >= blk.numFrames THEN st
    ELSE ProcessFrames(ProcessSample(st, ch, i, blk), ch, i + 1, blk)

\* One channel of the block: acc holds the buses, every channel's state, the
\* block-local crossfadeMix and what each channel computed.
ProcessChannel(acc, ch, blk) ==
    LET st == ProcessFrames([delay |-> acc.channels[ch].delayLine,
                             wp |-> acc.channels[ch].writePos,
                             mix |-> acc.crossfadeMix,
                             bus |-> acc.bus,
                             wet |-> << >>, dry |-> << >>, mixed |-> << >>,
                             mixUsed |-> << >>, prior |-> << >>,
                             cursor |-> << >>, scan |-> << >>,
                             touched |-> {}, taps |-> {}],
                            ch, 0, blk)
    IN  [bus |-> st.bus,
         channels |-> [acc.channels EXCEPT ![ch] =
                          [delayLine |-> st.delay, writePos |-> st.wp]],
         crossfadeMix |-> IF ch = 0 /\ blk.crossfading THEN st.mix
                          ELSE acc.crossfadeMix,
         trace |-> [acc.trace EXCEPT ![ch] =
                      [wet |-> st.wet, dry |-> st.dry, mixed |-> st.mixed,
                       mixUsed |-> st.mixUsed, prior |-> st.prior,
                       cursor |-> st.cursor, scan |-> st.scan,
                       touched |-> st.touched, taps |-> st.taps,
                       kernelSize |-> blk.kernelSize,
                       convolved |-> blk.doConvolve /\ blk.numFrames > 0,
                       blended |-> blk.doConvolve /\ blk.crossfading
                                     /\ blk.numFrames > 0,
                       written |-> [i \in 1..Len(st.mixed) |->
                                      st.bus[v[BaseParam(ch) + kParamOutput]][i - 1]]]]]

RECURSIVE ProcessChannels(_, _, _)
ProcessChannels(acc, ch, blk) ==
    IF ch >= numChannels THEN acc
    ELSE ProcessChannels(ProcessChannel(acc, ch, blk), ch + 1, blk)

EmptyTrace ==
    [ch \in Channels |->
        [wet |-> << >>, dry |-> << >>, mixed |-> << >>, mixUsed |-> << >>,
         prior |-> << >>, cursor |-> << >>, scan |-> << >>, touched |-> {},
         taps |-> {}, kernelSize |-> 0, convolved |-> FALSE, blended |-> FALSE,
         written |-> << >>]]

\* The values step reads once at the top of the block.
BlockLocals(numFramesBy4) ==
    [numFrames |-> numFramesBy4 * 4,
     depth |-> depth,
     gain |-> gain,
     saturation |-> saturation,
     doConvolve |-> wavetableLoaded,
     kernelSize |-> kernelSize,
     kernelMask |-> kernelMask,
     crossfading |-> crossfading]

\* The audio loop over all channels of one block on the host's buses.
AudioBlock(bus, numFramesBy4) ==
    ProcessChannels([bus |-> bus, channels |-> channels,
                     crossfadeMix |-> crossfadeMix, trace |-> EmptyTrace],
                    0, BlockLocals(numFramesBy4))

vars == <<v, numChannels, cardMounted, awaitingCallback, wavetableLoaded,
          currentIndexParam, request, wavetableBuffer, loadPhase, kernels,
          newKernels, crossfadeMix, crossfading, depth, gain, saturation,
          kernelSize, kernelMask, channels, busFrames, sram, callbackPos,
          lastOp, lastBlock, fed, xfSamples, budget>>

engineVars == <<wavetableLoaded, currentIndexParam, kernels, newKernels,
                crossfadeMix, crossfading, depth, gain, saturation,
                kernelSize, kernelMask>>

(***************************************************************************)
(* Bounds on the host's behaviour.                                         *)
(***************************************************************************)
MaxLoads == 2       \* load requests the subsystem accepts
MaxParams == 2      \* parameter-change notifications
MaxSteps == 3       \* audio blocks

\* Number of waves a successful load may report, besides 0.
NumWaves == 3

(***************************************************************************)
(* FACTORY FUNCTIONS                                                       *)
(***************************************************************************)

\* Sizes of the host API's structures and of the algorithm struct, in bytes.
SizeofAlgorithm == 96
SizeofParameter == 16
SizeofPage == 12
kNumPages == 3
kNameSlot == 16

\* A sizing function that leaves out the routing page's index array.
calculateRequirements_NoPageArray(n) ==
    LET numParams == kNumSharedParams + n * kParamsPerChannel
    IN  [numParameters |-> numParams,
         sram |-> SizeofAlgorithm + numParams * SizeofParameter
                    + kNumPages * SizeofPage + n * kParamsPerChannel * kNameSlot,
         dram |-> kWavetableBufferSize * 2]

\* calculateRequirements for n channels.
calculateRequirements(n) ==
    LET numParams == kNumSharedParams + n * kParamsPerChannel
        paramSize == numParams * SizeofParameter
        pageSize == kNumPages * SizeofPage
        pageArraySize == n * kParamsPerChannel
        paramNameSize == n * kParamsPerChannel * kNameSlot
    IN  [numParameters |-> numParams,
         sram |-> SizeofAlgorithm + paramSize + pageSize + pageArraySize
                    + paramNameSize,
         dram |-> kWavetableBufferSize * 2]

\* Bytes of the name arena: characters, the terminator, and memory that
\* construct has not written.
NUL == "NUL"
Unwritten == "?"
DigitChars == <<"0", "1", "2", "3", "4", "5", "6", "7", "8", "9">>

\* NT_intToString: the decimal digits of x.
RECURSIVE NT_intToString(_)
NT_intToString(x) ==
    IF x < 10 THEN <<DigitChars[x + 1]>>
    ELSE NT_intToString(x \div 10) \o <<DigitChars[(x % 10) + 1]>>

\* The characters construct writes for parameter p of channel ch, with the
\* terminator.
NameChars(ch, p) ==
    (IF p = kParamInput THEN <<"I", "n", "p", "u", "t", " ">>
     ELSE IF p = kParamOutput THEN <<"O", "u", "t", "p", "u", "t", " ">>
     ELSE <<"O", "u", "t", " ">>)
    \o NT_intToString(1 + ch)
    \o (IF p = kParamOutputMode THEN <<" ", "M", "o", "d", "e">> ELSE << >>)
    \o <<NUL>>

\* construct up to the copy of the shared parameters: the regions placed in
\* the block of req.sram bytes the host allocated for n channels.  Offsets
\* are from the start of the block.
PlaceRegions(n) ==
    LET numParams == kNumSharedParams + n * kParamsPerChannel
        params == SizeofAlgorithm
        pages == params + numParams * SizeofParameter
        pageArrays == pages + kNumPages * SizeofPage
        paramNames == pageArrays + n * kParamsPerChannel
        mem == paramNames + n * kParamsPerChannel * kNameSlot
    IN  [n |-> n, pc |-> "names", ch |-> 0, p |-> 0, i |-> 0,
         size |-> calculateRequirements(n).sram,
         params |-> params, numParams |-> numParams,
         pages |-> pages, pageArrays |-> pageArrays,
         paramNames |-> paramNames, mem |-> mem,
         paramsWritten |-> 0..(kNumSharedParams - 1),
         namePtr |-> [q \in 0..(numParams - 1) |-> -1],
         names |-> [r \in 0..(n * kParamsPerChannel * kNameSlot - 1) |-> Unwritten],
         pageArr |-> [j \in 0..(n * kParamsPerChannel - 1) |-> -1],
         stray |-> {}]

\* One pass of the inner name loop: the name of parameter p of channel ch,
\* after the copy of the template at the channel's first parameter.
BuildName(s) ==
    LET baseParam == kNumSharedParams + s.ch * kParamsPerChannel
        name == s.paramNames + (s.ch * kParamsPerChannel + s.p) * kNameSlot
        text == NameChars(s.ch, s.p)
        last == s.p + 1 = kParamsPerChannel
    IN  [s EXCEPT
           !.names = [r \in DOMAIN s.names |->
                        LET k == s.paramNames + r - name
                        IN  IF k >= 0 /\ k < Len(text) /\ s.paramNames + r < s.size
                            THEN text[k + 1] ELSE s.names[r]],
           !.stray = @ \cup {name + k : k \in {j \in 0..(Len(text) - 1) :
                                                 name + j >= s.size}},
           !.paramsWritten = IF s.p = 0
                             THEN @ \cup {baseParam + q : q \in 0..(kParamsPerChannel - 1)}
                             ELSE @,
           !.namePtr = [q \in DOMAIN s.namePtr |->
                          IF q = baseParam + s.p THEN name ELSE s.namePtr[q]],
           !.p = IF last THEN 0 ELSE s.p + 1,
           !.ch = IF last THEN s.ch + 1 ELSE s.ch,
           !.pc = IF last /\ s.ch + 1 = s.n THEN "pages" ELSE "names"]

\* One pass of the routing page loop: pageArrays[i] = kNumSharedParams + i,
\* a uint8_t.
FillPageEntry(s) ==
    [s EXCEPT
       !.pageArr = [j \in DOMAIN s.pageArr |->
                      IF j = s.i THEN (kNumSharedParams + s.i) % 256
                      ELSE s.pageArr[j]],
       !.i = s.i + 1,
       !.pc = IF s.i + 1 = s.n * kParamsPerChannel THEN "state" ELSE "pages"]

ConstructStep(s) ==
    IF s.pc = "names" THEN BuildName(s)
    ELSE IF s.pc = "pages" THEN FillPageEntry(s)
    ELSE [s EXCEPT !.pc = "done"]

\* The working memory when construct returns.
RECURSIVE RunConstruct(_)
RunConstruct(s) == IF s.pc = "done" THEN s ELSE RunConstruct(ConstructStep(s))

\* The parameter defaults (sharedParameters[].def, and the per-channel
\* defaults construct sets) that the host stores in v[] for a new instance.
DefaultValue(p, n) ==
    IF p = kParamWavetable THEN 0
    ELSE IF p = kParamIndex THEN 500
    ELSE IF p = kParamSpread THEN 0
    ELSE IF p = kParamDepth THEN 50
    ELSE IF p = kParamGain THEN 0
    ELSE IF p = kParamSaturation THEN 0
    ELSE IF p = kParamKernelSize THEN 2
    ELSE LET ch == (p - kNumSharedParams) \div kParamsPerChannel
             q == (p - kNumSharedParams) % kParamsPerChannel
         IN  IF q = kParamInput THEN 1 + ch
             ELSE IF q = kParamOutput THEN kDefaultOutputBus + ch
             ELSE 0

\* construct: the state it leaves for n channels.
construct(n) ==
    /\ numChannels = n
    /\ v = [p \in 0..(NumParams(n) - 1) |-> DefaultValue(p, n)]
    /\ cardMounted = FALSE
    /\ awaitingCallback = FALSE
    /\ wavetableLoaded = FALSE
    /\ currentIndexParam = -1000
    /\ request = [index |-> 0, numWaves |-> 0, usingMipMaps |-> FALSE, error |-> FALSE]
    /\ wavetableBuffer = BufZero
    /\ loadPhase = "none"
    /\ kernels = [ch \in Channels |-> ZeroKernel]
    /\ newKernels = [ch \in Channels |-> ZeroKernel]
    /\ crossfadeMix = 0
    /\ crossfading = FALSE
    /\ depth = 50
    /\ gain = GainOne
    /\ saturation = 0
    /\ kernelSize = KernelSizeAt(2)
    /\ kernelMask = KernelSizeAt(2) - 1
    /\ channels = [ch \in Channels |->
                     [delayLine |-> [i \in 0..(2 * kMaxKernelSize - 1) |-> 0],
                      writePos |-> 0]]
    /\ busFrames = [b \in Buses |-> << >>]
    /\ sram = RunConstruct(PlaceRegions(n))

\* The call parameterChanged(kParamWavetable) makes to NT_readWavetable,
\* when it makes it (doRead), and the subsystem's answer (accept).
ReadWavetable(doRead, vv, accept) ==
    /\ request' = IF doRead THEN [request EXCEPT !.index = vv[kParamWavetable]]
                  ELSE request
    /\ awaitingCallback' = IF doRead /\ accept THEN TRUE ELSE awaitingCallback
    /\ loadPhase' = IF doRead /\ accept THEN "reading" ELSE loadPhase
    /\ wavetableBuffer' = IF doRead /\ accept THEN BufLoading ELSE wavetableBuffer

\* The load subsystem finishes populating the buffer and fills in the
\* request's result fields; the callback follows.
LoadFinish(outcome) ==
    /\ loadPhase = "reading"
    /\ loadPhase' = "ready"
    /\ request' = IF outcome.error THEN [request EXCEPT !.error = TRUE]
                  ELSE [request EXCEPT !.error = FALSE,
                                       !.numWaves = outcome.numWaves,
                                       !.usingMipMaps = outcome.usingMipMaps]
    /\ wavetableBuffer' = IF outcome.error THEN BufFailed ELSE request.index
    /\ lastOp' = "loadFinish"
    /\ UNCHANGED <<v, numChannels, cardMounted, awaitingCallback, engineVars,
                   channels, busFrames, sram, callbackPos, lastBlock, fed,
                   xfSamples, budget>>

\* A callback that crossfades on the first load too.
CallbackCrossfades_AnyLoad == ~request.error /\ CrossfadeStarts

\* wavetableCallback takes the crossfade branch and the crossfade starts.
CallbackCrossfades == ~request.error /\ wavetableLoaded /\ CrossfadeStarts

\* A callback that does not look at the error flag.
CallbackBuildsActive_NoErrorCheck == ~wavetableLoaded

\* wavetableCallback takes the first-load branch.
CallbackBuildsActive == ~request.error /\ ~wavetableLoaded

wavetableCallback ==
    /\ loadPhase = "ready"
    /\ loadPhase' = "none"
    /\ awaitingCallback' = FALSE
    /\ wavetableLoaded' = IF CallbackBuildsActive THEN TRUE ELSE wavetableLoaded
    /\ kernels' = IF CallbackBuildsActive
                  THEN buildAllKernels(kernels, v, kernelSize) ELSE kernels
    /\ newKernels' = IF CallbackCrossfades
                     THEN buildAllKernels(newKernels, v, kernelSize) ELSE newKernels
    /\ crossfadeMix' = IF CallbackCrossfades THEN 0 ELSE crossfadeMix
    /\ crossfading' = IF CallbackCrossfades THEN TRUE ELSE crossfading
    /\ currentIndexParam' = IF CallbackBuildsActive \/ CallbackCrossfades
                            THEN v[kParamIndex] ELSE currentIndexParam
    /\ xfSamples' = IF CallbackCrossfades THEN 0 ELSE xfSamples
    /\ lastOp' = "callback"
    /\ UNCHANGED <<v, numChannels, cardMounted, request, wavetableBuffer,
                   depth, gain, saturation, kernelSize, kernelMask,
                   channels, busFrames, sram, callbackPos, lastBlock, fed, budget>>

\* A Wavetable case that does not look at awaitingCallback.
RequestsLoad_NoAwaitCheck(p) == p = kParamWavetable /\ cardMounted

\* case kParamWavetable: if (!pThis->awaitingCallback && pThis->cardMounted)
RequestsLoad(p) == p = kParamWavetable /\ ~awaitingCallback /\ cardMounted

\* parameterChanged(self, p), after the host has stored val in v[p].
parameterChanged(p, val, accept) ==
    LET vv == [v EXCEPT ![p] = val]
        size == IF p = kParamKernelSize
                THEN KernelSizeAt(ClampKernelIndex(vv[kParamKernelSize]))
                ELSE kernelSize
        rebuild == /\ p \in {kParamIndex, kParamSpread, kParamKernelSize}
                   /\ UpdateKernelBuilds
        doRead == RequestsLoad(p)
    IN  /\ v' = vv
        /\ ReadWavetable(doRead, vv, accept)
        /\ kernelSize' = size
        /\ kernelMask' = IF p = kParamKernelSize THEN size - 1 ELSE kernelMask
        /\ kernels' = IF p \in {kParamIndex, kParamSpread, kParamKernelSize}
                      THEN updateKernel(vv, size) ELSE kernels
        /\ currentIndexParam' = IF rebuild THEN vv[kParamIndex] ELSE currentIndexParam
        /\ depth' = IF p = kParamDepth THEN vv[kParamDepth] ELSE depth
        /\ gain' = IF p = kParamGain THEN GainOf(vv[kParamGain]) ELSE gain
        /\ saturation' = IF p = kParamSaturation THEN vv[kParamSaturation]
                         ELSE saturation
        /\ lastOp' = "param"
        /\ UNCHANGED <<numChannels, cardMounted, wavetableLoaded, newKernels,
                       crossfadeMix, crossfading, channels, busFrames, sram,
                       callbackPos, lastBlock, fed, xfSamples>>

\* A copy that takes only the driver channel's kernel.
CompleteCrossfade_DriverOnly(ks, nks, size) ==
    [ch \in DOMAIN ks |->
        IF ch = 0
        THEN [i \in TapIndex |-> IF i < size THEN nks[ch][i] ELSE ks[ch][i]]
        ELSE ks[ch]]

\* The copy of the pending set into the active set when the ramp is over.
CompleteCrossfade(ks, nks, size) ==
    [ch \in DOMAIN ks |->
        IF ch < numChannels
        THEN [i \in TapIndex |-> IF i < size THEN nks[ch][i] ELSE ks[ch][i]]
        ELSE ks[ch]]

\* step(self, busFrames, numFramesBy4): mounted is NT_isSdCardMounted(),
\* bus the content of the host's buses on entry.
step(bus, numFramesBy4, mounted, accept) ==
    LET doRead == cardMounted # mounted /\ mounted /\ ~awaitingCallback
        audio == AudioBlock(bus, numFramesBy4)
        completes == crossfading /\ audio.crossfadeMix >= kCrossfadeDen
    IN  /\ cardMounted' = mounted
        /\ ReadWavetable(doRead, v, accept)
        /\ channels' = audio.channels
        /\ busFrames' = audio.bus
        /\ kernels' = IF completes
                      THEN CompleteCrossfade(kernels, newKernels, kernelSize)
                      ELSE kernels
        /\ crossfading' = IF completes THEN FALSE ELSE crossfading
        /\ crossfadeMix' = IF crossfading
                           THEN IF completes THEN 0 ELSE audio.crossfadeMix
                           ELSE crossfadeMix
        /\ lastBlock' = audio.trace
        /\ fed' = [ch \in Channels |->
                     IF ch < numChannels
                     THEN fed[ch] \o [j \in 1..(numFramesBy4 * 4) |->
                                        [dry |-> audio.trace[ch].dry[j],
                                         kernelSize |-> kernelSize]]
                     ELSE fed[ch]]
        /\ xfSamples' = IF crossfading /\ wavetableLoaded
                        THEN xfSamples + numFramesBy4 * 4 ELSE xfSamples
        /\ lastOp' = "step"
        /\ UNCHANGED <<v, numChannels, wavetableLoaded, currentIndexParam,
                       newKernels, depth, gain, saturation, kernelSize, kernelMask,
                       sram, callbackPos>>

(***************************************************************************)
(* The host: what it feeds the handlers.                                   *)
(***************************************************************************)

\* Content of bus b at frame i on entry to step, for input pattern pat:
\* 0 is silence, 1 a unit impulse on every bus, 2 a signal that differs per
\* bus and frame.
PatternSample(pat, b, i) ==
    IF pat = 0 THEN 0
    ELSE IF pat = 1 THEN (IF i = 0 THEN SampleOne ELSE 0)
    ELSE (((b * 29 + i * 13) % 9) - 4) * (SampleOne \div 4)

InputBus(pat, numFramesBy4) ==
    [b \in Buses |-> [i \in 0..(numFramesBy4 * 4 - 1) |-> PatternSample(pat, b, i)]]

\* What a load may report when it ends.
LoadOutcomes ==
    {[error |-> TRUE, numWaves |-> 0, usingMipMaps |-> FALSE]}
    \cup {[error |-> FALSE, numWaves |-> NumWaves, usingMipMaps |-> m] :
            m \in BOOLEAN}
    \cup {[error |-> FALSE, numWaves |-> 0, usingMipMaps |-> TRUE]}

\* Parameter changes of the control model: <<parameter, value>>.
ControlChanges ==
    {<<kParamWavetable, w>> : w \in 0..1}
    \cup {<<kParamIndex, 0>>, <<kParamSpread, 1000>>}
    \cup {<<kParamKernelSize, k>> : k \in {-1, 4}}

\* The callback is not running.
CallbackIdle == [pc |-> "idle", ch |-> 0, before |-> [ch \in Channels |-> ZeroKernel]]

InitHistory ==
    /\ callbackPos = CallbackIdle
    /\ lastOp = "construct"
    /\ lastBlock = EmptyTrace
    /\ fed = [ch \in Channels |-> << >>]
    /\ xfSamples = 0
    /\ budget = [loads |-> 0, params |-> 0, steps |-> 0]

Init == construct(NumCh) /\ InitHistory

\* NT_readWavetable's answer: the subsystem accepts requests up to the load
\* budget and refuses the ones after it.
Accepts == {budget.loads < MaxLoads}

\* NT_isSdCardMounted(): the card, once in, stays in.
Mounts == IF cardMounted THEN {TRUE} ELSE BOOLEAN

HostParameterChanged ==
    \E c \in ControlChanges : \E accept \in Accepts :
        /\ budget.params < MaxParams
        /\ c[2] # v[c[1]]
        /\ parameterChanged(c[1], c[2], accept)
        /\ budget' = [budget EXCEPT
                        !.loads = IF awaitingCallback' # awaitingCallback
                                  THEN @ + 1 ELSE @,
                        !.params = @ + 1]

HostStep ==
    \E f \in 1..MaxFramesBy4 : \E mounted \in Mounts : \E accept \in Accepts :
        /\ budget.steps < MaxSteps
        /\ step(InputBus(2, f), f, mounted, accept)
        /\ budget' = [budget EXCEPT
                        !.loads = IF awaitingCallback' # awaitingCallback
                                  THEN @ + 1 ELSE @,
                        !.steps = @ + 1]

LoadSubsystem == \E o \in LoadOutcomes : LoadFinish(o)

Next ==
    \/ HostParameterChanged
    \/ HostStep
    \/ LoadSubsystem
    \/ wavetableCallback

Spec == Init /\ [][Next]_vars

\* The return of the callback as seen on the load subsystem's side: of the
\* actions of Next only wavetableCallback takes loadPhase from "ready" to
\* "none", and it is enabled exactly when loadPhase is "ready".
CallbackReturns ==
    loadPhase = "ready" /\ loadPhase' = "none"

\* The load subsystem ends every load it has accepted and then calls the
\* callback, which returns.
SpecLive ==
    /\ Init /\ [][Next]_vars
    /\ WF_loadPhase(LoadSubsystem)
    /\ WF_loadPhase(CallbackReturns)

(***************************************************************************)
(* The signal path: loads always succeed, and the host changes the mix,    *)
(* saturation, gain and routing parameters between blocks.                 *)
(***************************************************************************)
MaxDspParams == 3   \* parameter-change notifications

DspChanges ==
    {<<kParamDepth, 0>>, <<kParamDepth, 100>>, <<kParamSaturation, 50>>,
     <<kParamGain, 60>>, <<kParamGain, -60>>, <<kParamWavetable, 1>>,
     <<BaseParam(0) + kParamOutputMode, 1>>,
     <<BaseParam(1) + kParamOutputMode, 1>>,
     <<BaseParam(1) + kParamOutput, kDefaultOutputBus>>,
     <<BaseParam(1) + kParamInput, kDefaultOutputBus>>}

DspLoadOutcomes == {[error |-> FALSE, numWaves |-> NumWaves, usingMipMaps |-> TRUE]}

DspParameterChanged ==
    \E c \in DspChanges : \E accept \in Accepts :
        /\ budget.params < MaxDspParams
        /\ c[2] # v[c[1]]
        /\ parameterChanged(c[1], c[2], accept)
        /\ budget' = [budget EXCEPT
                        !.loads = IF awaitingCallback' # awaitingCallback
                                  THEN @ + 1 ELSE @,
                        !.params = @ + 1]

DspLoadSubsystem == \E o \in DspLoadOutcomes : LoadFinish(o)

NextDsp ==
    \/ DspParameterChanged
    \/ HostStep
    \/ DspLoadSubsystem
    \/ wavetableCallback

SpecDsp == Init /\ [][NextDsp]_vars

(***************************************************************************)
(* The callback against the audio path.  wavetableCallback runs in the     *)
(* loader's context and step preempts it: a whole block may run between    *)
(* any two of the callback's stores.  The callback is split at the stores  *)
(* that the audio path reads: the flag wavetableLoaded, each channel's     *)
(* kernel, and the flag crossfading.                                       *)
(***************************************************************************)
MaxConcLoads == 3   \* load requests the subsystem accepts
MaxConcParams == 2  \* Wavetable changes

ConcAccepts == {budget.loads < MaxConcLoads}

\* wavetableCallback up to its first store into a kernel set.
CallbackEnter ==
    /\ loadPhase = "ready"
    /\ callbackPos.pc = "idle"
    /\ loadPhase' = "none"
    /\ awaitingCallback' = FALSE
    /\ wavetableLoaded' = IF CallbackBuildsActive THEN TRUE ELSE wavetableLoaded
    /\ callbackPos' = [pc |-> IF CallbackBuildsActive THEN "active"
                              ELSE IF CallbackCrossfades THEN "pending"
                              ELSE "idle",
                       ch |-> 0,
                       before |-> newKernels]
    /\ lastOp' = IF CallbackBuildsActive \/ CallbackCrossfades
                 THEN "callbackEnter" ELSE "callback"
    /\ UNCHANGED <<v, numChannels, cardMounted, request, wavetableBuffer,
                   currentIndexParam, kernels, newKernels, crossfadeMix,
                   crossfading, depth, gain, saturation, kernelSize, kernelMask,
                   channels, busFrames, sram, lastBlock, fed, xfSamples, budget>>

\* buildAllKernels, one channel's kernel per step, into the set the callback
\* is building; after the last channel it sets currentIndexParam, and the
\* first-load branch is over.
CallbackBuildChannel ==
    LET ch == callbackPos.ch
        last == ch + 1 = numChannels
        active == callbackPos.pc = "active"
    IN  /\ callbackPos.pc \in {"active", "pending"}
        /\ kernels' = IF active
                      THEN [kernels EXCEPT
                              ![ch] = buildAllKernels(kernels, v, kernelSize)[ch]]
                      ELSE kernels
        /\ newKernels' = IF active THEN newKernels
                         ELSE [newKernels EXCEPT
                                 ![ch] = buildAllKernels(newKernels, v, kernelSize)[ch]]
        /\ currentIndexParam' = IF last THEN v[kParamIndex] ELSE currentIndexParam
        /\ callbackPos' = [callbackPos EXCEPT
                             !.ch = IF last THEN 0 ELSE ch + 1,
                             !.pc = IF ~last THEN @
                                    ELSE IF active THEN "idle" ELSE "publish"]
        /\ lastOp' = IF last /\ active THEN "callback" ELSE "callbackBuild"
        /\ UNCHANGED <<v, numChannels, cardMounted, awaitingCallback,
                       wavetableLoaded, request, wavetableBuffer, loadPhase,
                       crossfadeMix, crossfading, depth, gain, saturation,
                       kernelSize, kernelMask, channels, busFrames, sram,
                       lastBlock, fed, xfSamples, budget>>

\* The end of updateKernelWithCrossfade: crossfadeMix = 0, crossfading = true.
CallbackPublish ==
    /\ callbackPos.pc = "publish"
    /\ crossfadeMix' = 0
    /\ crossfading' = TRUE
    /\ xfSamples' = 0
    /\ callbackPos' = [callbackPos EXCEPT !.pc = "idle"]
    /\ lastOp' = "callback"
    /\ UNCHANGED <<v, numChannels, cardMounted, awaitingCallback,
                   wavetableLoaded, currentIndexParam, request, wavetableBuffer,
                   loadPhase, kernels, newKernels, depth, gain, saturation,
                   kernelSize, kernelMask, channels, busFrames, sram,
                   lastBlock, fed, budget>>

ConcParameterChanged ==
    \E w \in 0..1 : \E accept \in ConcAccepts :
        /\ budget.params < MaxConcParams
        /\ w # v[kParamWavetable]
        /\ parameterChanged(kParamWavetable, w, accept)
        /\ budget' = [budget EXCEPT
                        !.loads = IF awaitingCallback' # awaitingCallback
                                  THEN @ + 1 ELSE @,
                        !.params = @ + 1]

ConcStep ==
    \E f \in 1..MaxFramesBy4 : \E mounted \in Mounts : \E accept \in ConcAccepts :
        /\ budget.steps < MaxSteps
        /\ step(InputBus(2, f), f, mounted, accept)
        /\ budget' = [budget EXCEPT
                        !.loads = IF awaitingCallback' # awaitingCallback
                                  THEN @ + 1 ELSE @,
                        !.steps = @ + 1]

\* The loader's context is sequential: it ends a load only after the
\* callback of the one before has returned.
ConcLoadSubsystem ==
    /\ callbackPos.pc = "idle"
    /\ \E o \in DspLoadOutcomes : LoadFinish(o)

NextConc ==
    \/ ConcParameterChanged
    \/ ConcStep
    \/ ConcLoadSubsystem
    \/ CallbackEnter
    \/ CallbackBuildChannel
    \/ CallbackPublish

SpecConc == Init /\ [][NextConc]_vars

(***************************************************************************)
(* The delay-line model: long runs of blocks under kernel-size changes,    *)
(* with an input that differs from sample to sample.                       *)
(***************************************************************************)
MaxDelaySteps == 9    \* audio blocks
MaxDelayParams == 2   \* parameter-change notifications

DelayChanges == {<<kParamKernelSize, k>> : k \in 0..(kNumKernelSizes - 1)}

\* The input on bus b at sample t counted from construction.
DelaySignal(b, t) == (((b * 7 + t * t + 3 * t) % 13) - 6) * (SampleOne \div 4)

DelayInputBus(numFramesBy4) ==
    [b \in Buses |-> [i \in 0..(numFramesBy4 * 4 - 1) |->
                        DelaySignal(b, Len(fed[0]) + i)]]

DelayParameterChanged ==
    \E c \in DelayChanges : \E accept \in Accepts :
        /\ budget.params < MaxDelayParams
        /\ c[2] # v[c[1]]
        /\ parameterChanged(c[1], c[2], accept)
        /\ budget' = [budget EXCEPT !.params = @ + 1]

DelayStep ==
    \E f \in 1..MaxFramesBy4 : \E mounted \in Mounts : \E accept \in Accepts :
        /\ budget.steps < MaxDelaySteps
        /\ step(DelayInputBus(f), f, mounted, accept)
        /\ budget' = [budget EXCEPT
                        !.loads = IF awaitingCallback' # awaitingCallback
                                  THEN @ + 1 ELSE @,
                        !.steps = @ + 1]

NextDelay ==
    \/ DelayParameterChanged
    \/ DelayStep
    \/ DspLoadSubsystem
    \/ wavetableCallback

SpecDelay == Init /\ [][NextDelay]_vars

(***************************************************************************)
(* construct, step by step: the host discards the instance and constructs  *)
(* a new one for any channel count its specification allows.               *)
(***************************************************************************)
ConstructBegin ==
    /\ sram.pc = "done"
    /\ \E n \in 1..kMaxChannels : sram' = PlaceRegions(n)
    /\ lastOp' = "constructing"
    /\ UNCHANGED <<v, numChannels, cardMounted, awaitingCallback, engineVars,
                   request, wavetableBuffer, loadPhase, channels, busFrames,
                   callbackPos, lastBlock, fed, xfSamples, budget>>

ConstructName ==
    /\ sram.pc = "names"
    /\ sram' = BuildName(sram)
    /\ UNCHANGED <<v, numChannels, cardMounted, awaitingCallback, engineVars,
                   request, wavetableBuffer, loadPhase, channels, busFrames,
                   callbackPos, lastOp, lastBlock, fed, xfSamples, budget>>

ConstructPageEntry ==
    /\ sram.pc = "pages"
    /\ sram' = FillPageEntry(sram)
    /\ UNCHANGED <<v, numChannels, cardMounted, awaitingCallback, engineVars,
                   request, wavetableBuffer, loadPhase, channels, busFrames,
                   callbackPos, lastOp, lastBlock, fed, xfSamples, budget>>

\* The rest of construct: the DTC and the buffer zeroed, the state and the
\* cached values set; v holds the defaults of the new parameter list.
ConstructState ==
    /\ sram.pc = "state"
    /\ sram' = ConstructStep(sram)
    /\ numChannels' = sram.n
    /\ v' = [q \in 0..(NumParams(sram.n) - 1) |-> DefaultValue(q, sram.n)]
    /\ cardMounted' = FALSE
    /\ awaitingCallback' = FALSE
    /\ wavetableLoaded' = FALSE
    /\ currentIndexParam' = -1000
    /\ wavetableBuffer' = BufZero
    /\ kernels' = [ch \in Channels |-> ZeroKernel]
    /\ newKernels' = [ch \in Channels |-> ZeroKernel]
    /\ crossfadeMix' = 0
    /\ crossfading' = FALSE
    /\ depth' = 50
    /\ gain' = GainOne
    /\ saturation' = 0
    /\ kernelSize' = KernelSizeAt(2)
    /\ kernelMask' = KernelSizeAt(2) - 1
    /\ lastOp' = "construct"
    /\ UNCHANGED <<request, loadPhase, channels, busFrames, callbackPos,
                   lastBlock, fed, xfSamples, budget>>

NextLayout ==
    \/ ConstructBegin
    \/ ConstructName
    \/ ConstructPageEntry
    \/ ConstructState

SpecLayout == Init /\ [][NextLayout]_vars

(***************************************************************************)
(* PROPERTIES                                                              *)
(***************************************************************************)

\* The first size taps of every channel's kernel agree in the two sets.
SameKernels(ks, nks, size) ==
    \A ch \in 0..(numChannels - 1) : \A i \in 0..(size - 1) : ks[ch][i] = nks[ch][i]

\* The most recently completed load, when no load is in flight.
LoadCompleted == budget.loads > 0 /\ loadPhase = "none"
Unsupported == ~request.usingMipMaps \/ request.numWaves = 0

\* C1 as stated: on a load-completion callback with the error flag clear, a
\* first load builds the active set directly and does not crossfade, a
\* reload leaves the active set, builds the pending set, resets mix to 0 and
\* enters Crossfading; nothing else moves the engine from Idle to Crossfading.
C1_AsStated ==
    [][/\ (lastOp' = "callback" /\ ~request.error) =>
            IF ~wavetableLoaded
            THEN /\ kernels' = buildAllKernels(kernels, v, kernelSize)
                 /\ ~crossfading'
            ELSE /\ kernels' = kernels
                 /\ newKernels' = buildAllKernels(newKernels, v, kernelSize)
                 /\ crossfadeMix' = 0
                 /\ crossfading'
       /\ (~crossfading /\ crossfading') =>
            (lastOp' = "callback" /\ ~request.error /\ wavetableLoaded)]_vars

\* C1, amended: the reload branch is taken when the completed load also
\* reports usingMipMaps and numWaves > 0; a reload that reports neither an
\* error nor a usable table changes no kernel and starts no crossfade.
C1_CallbackTransitions ==
    [][/\ (lastOp' = "callback" /\ ~request.error) =>
            IF ~wavetableLoaded
            THEN /\ kernels' = buildAllKernels(kernels, v, kernelSize)
                 /\ wavetableLoaded'
                 /\ ~crossfading'
            ELSE IF ~Unsupported
            THEN /\ kernels' = kernels
                 /\ newKernels' = buildAllKernels(newKernels, v, kernelSize)
                 /\ crossfadeMix' = 0
                 /\ crossfading'
            ELSE UNCHANGED <<kernels, newKernels, crossfadeMix, crossfading>>
       /\ (~crossfading /\ crossfading') =>
            (lastOp' = "callback" /\ ~request.error /\ wavetableLoaded)]_vars

\* A reload has just put the engine in Crossfading with mix 0.
C1_Witness ==
    /\ lastOp = "callback"
    /\ crossfading /\ crossfadeMix = 0
    /\ ~SameKernels(kernels, newKernels, kernelSize)

C3_FailedLoadKeepsState ==
    [][(lastOp' = "callback" /\ request.error) =>
          /\ ~awaitingCallback'
          /\ UNCHANGED <<kernels, newKernels, crossfading, crossfadeMix,
                         wavetableLoaded>>]_vars

\* A load failed after an earlier one had succeeded.
C3_Witness ==
    /\ lastOp = "callback"
    /\ request.error
    /\ wavetableLoaded
    /\ ~awaitingCallback

\* C4 as stated: after a load that completed without usingMipMaps or with
\* numWaves = 0, every step skips the convolution: wet = dry per sample.
C4_UnsupportedPassesDry ==
    (lastOp = "step" /\ LoadCompleted /\ ~request.error /\ Unsupported) =>
        \A ch \in 0..(numChannels - 1) :
            /\ ~lastBlock[ch].convolved
            /\ lastBlock[ch].wet = lastBlock[ch].dry

\* A step convolved although the load that completed last reported an
\* unsupported resolution, and its wet signal is not the dry signal.
C4_ConvolvesUnsupported ==
    /\ lastOp = "step" /\ LoadCompleted /\ ~request.error /\ Unsupported
    /\ \E ch \in 0..(numChannels - 1) :
          lastBlock[ch].convolved /\ lastBlock[ch].wet # lastBlock[ch].dry

\* The host has just notified a change of parameter p.
ParamNotified(p) == lastOp' = "param" /\ v'[p] # v[p]
KernelParams == {kParamIndex, kParamSpread, kParamKernelSize}

\* The kernel set the Spread Expander gives for the parameter values vv.
FreshKernels(vv, size) == buildAllKernels([ch \in Channels |-> ZeroKernel], vv, size)

\* C6 as stated: with a kernel set active, a change of position, spread or
\* kernelSize leaves the active set equal to buildAllKernels of the new
\* values and touches neither the crossfade nor the pending set.
C6_AsStated ==
    [][(wavetableLoaded /\ \E p \in KernelParams : ParamNotified(p)) =>
          /\ SameKernels(kernels', FreshKernels(v', kernelSize'), kernelSize')
          /\ UNCHANGED <<crossfading, crossfadeMix, newKernels>>]_vars

\* The position was changed after a reload had failed, with a kernel set
\* active, and the active set is not the one the new position gives.
C6_StaleAfterFailedReload ==
    /\ lastOp = "param"
    /\ wavetableLoaded /\ request.error
    /\ v[kParamIndex] # DefaultValue(kParamIndex, numChannels)
    /\ ~SameKernels(kernels, FreshKernels(v, kernelSize), kernelSize)

\* C10: kernelSize is one of the four kernel sizes, a power of two, and
\* kernelMask is kernelSize - 1.
C10_KernelSizeValid ==
    /\ kernelSize \in {kKernelSizes[i] : i \in DOMAIN kKernelSizes}
    /\ kernelSize \in {Pow2(KernelLog2 + i) : i \in 0..3}
    /\ kernelMask = kernelSize - 1
    /\ BitAnd(kernelSize, kernelMask) = 0

\* An index above the enum range was notified and clamped to the largest.
C10_Witness ==
    /\ lastOp = "param"
    /\ v[kParamKernelSize] > kNumKernelSizes - 1
    /\ kernelSize = kMaxKernelSize
    /\ kernelMask = kMaxKernelSize - 1

\* What the claim gives for a channel's sample at depth 0: the dry sample,
\* through the saturation curve when saturation > 0, times the gain.
DryTimesGain(dry) ==
    ((IF saturation > 0 THEN softSaturate(dry, saturation) ELSE dry) * gain)
        \div GainOne

\* C7: with depth = 0 every sample a channel contributes in a block is
\* dry * gain, post-saturation when saturation > 0, whatever the kernels,
\* the routing and the crossfade state are.
C7_DryBypass ==
    (lastOp = "step" /\ depth = 0) =>
        \A ch \in 0..(numChannels - 1) :
            \A j \in 1..Len(lastBlock[ch].mixed) :
                lastBlock[ch].mixed[j] = DryTimesGain(lastBlock[ch].dry[j])

\* A block at depth 0 and a gain other than unity, run while crossfading,
\* in which the convolution gave something other than the dry signal.
C7_Witness ==
    /\ lastOp = "step" /\ depth = 0 /\ gain # GainOne
    /\ wavetableLoaded /\ crossfading /\ crossfadeMix > 0
    /\ \E ch \in 0..(numChannels - 1) : \E j \in 1..Len(lastBlock[ch].mixed) :
          /\ lastBlock[ch].convolved
          /\ lastBlock[ch].dry[j] # 0
          /\ lastBlock[ch].wet[j] # lastBlock[ch].dry[j]

OutBus(ch) == v[BaseParam(ch) + kParamOutput]
Replaces(ch) == v[BaseParam(ch) + kParamOutputMode] # 0
WritersOf(b) == {ch \in 0..(numChannels - 1) : OutBus(ch) = b}
FirstOf(S) == CHOOSE a \in S : \A c \in S : a <= c

\* C8: a channel in replace mode leaves its processed sample on its output
\* bus, whatever the bus held; a channel in accumulate mode leaves the prior
\* content plus its processed sample; and a bus that only accumulating
\* channels write ends the block holding its content on entry plus the sum
\* of what each of them computed.
C8_OutputMode ==
    lastOp = "step" =>
        /\ \A ch \in 0..(numChannels - 1) :
              \A j \in 1..Len(lastBlock[ch].mixed) :
                 lastBlock[ch].written[j] =
                    IF Replaces(ch) THEN lastBlock[ch].mixed[j]
                    ELSE lastBlock[ch].prior[j] + lastBlock[ch].mixed[j]
        /\ \A b \in Buses :
              (WritersOf(b) # {} /\ \A ch \in WritersOf(b) : ~Replaces(ch)) =>
                 \A j \in 1..Len(lastBlock[FirstOf(WritersOf(b))].mixed) :
                    busFrames[b][j - 1] =
                       lastBlock[FirstOf(WritersOf(b))].prior[j]
                       + SumRange([ch \in 0..(numChannels - 1) |->
                                     IF ch \in WritersOf(b)
                                     THEN lastBlock[ch].mixed[j] ELSE 0],
                                  0, numChannels - 1)

\* Two channels accumulated onto one bus that held something on entry, and
\* each contributed something.
C8_Witness ==
    /\ lastOp = "step"
    /\ OutBus(0) = OutBus(1) /\ ~Replaces(0) /\ ~Replaces(1)
    /\ \E j \in 1..Len(lastBlock[0].mixed) :
          /\ lastBlock[0].prior[j] # 0
          /\ lastBlock[0].mixed[j] # 0
          /\ lastBlock[1].mixed[j] # 0
          /\ busFrames[OutBus(0)][j - 1] =
                lastBlock[0].prior[j] + lastBlock[0].mixed[j] + lastBlock[1].mixed[j]

\* The decimal numerals of the channel numbers 1..12, as the names show them.
ChannelNumeral ==
    <<<<"1">>, <<"2">>, <<"3">>, <<"4">>, <<"5">>, <<"6">>, <<"7">>, <<"8">>,
      <<"9">>, <<"1", "0">>, <<"1", "1">>, <<"1", "2">>>>

\* "Input n", "Output n", "Out n Mode" for channel number k.
GeneratedName(k, p) ==
    IF p = kParamInput THEN <<"I", "n", "p", "u", "t", " ">> \o ChannelNumeral[k]
    ELSE IF p = kParamOutput
         THEN <<"O", "u", "t", "p", "u", "t", " ">> \o ChannelNumeral[k]
         ELSE <<"O", "u", "t", " ">> \o ChannelNumeral[k] \o <<" ", "M", "o", "d", "e">>

\* The slots whose names construct has written so far.
SlotsDone ==
    IF sram.pc = "names" THEN 0..(sram.ch * kParamsPerChannel + sram.p - 1)
    ELSE 0..(sram.n * kParamsPerChannel - 1)

\* C9: for every channel count N in 1..12 the descriptors, the 3 pages, the
\* routing index array and the name arena lie at consecutive offsets after
\* the algorithm struct and end exactly at the size calculateRequirements
\* gives for N; construct writes nothing outside the block and no descriptor
\* beyond the 7 + 3N; the index array lists 7, 8, ... in channel order; and
\* each generated name with its terminator lies inside its own 16-byte
\* slot, every other byte of the arena being untouched.
C9_StaticLayout ==
    LET n == sram.n
    IN  /\ n \in 1..12
        /\ sram.params = SizeofAlgorithm
        /\ sram.pages = sram.params + (kNumSharedParams + 3 * n) * SizeofParameter
        /\ sram.pageArrays = sram.pages + 3 * SizeofPage
        /\ sram.paramNames = sram.pageArrays + 3 * n
        /\ sram.mem = sram.paramNames + 3 * n * 16
        /\ sram.mem = sram.size
        /\ sram.size = calculateRequirements(n).sram
        /\ sram.stray = {}
        /\ sram.paramsWritten \subseteq 0..(kNumSharedParams + 3 * n - 1)
        /\ sram.pc \in {"state", "done"} =>
              /\ sram.paramsWritten = 0..(kNumSharedParams + 3 * n - 1)
              /\ \A ch \in 0..(n - 1) : \A p \in 0..2 :
                    sram.pageArr[3 * ch + p] = kNumSharedParams + 3 * ch + p
        /\ \A slot \in 0..(3 * n - 1) :
              LET text == GeneratedName((slot \div 3) + 1, slot % 3)
              IN  IF slot \in SlotsDone
                  THEN /\ Len(text) + 1 <= 16
                       /\ sram.namePtr[kNumSharedParams + slot]
                             = sram.paramNames + 16 * slot
                       /\ \A k \in 0..15 :
                             sram.names[16 * slot + k] =
                                IF k < Len(text) THEN text[k + 1]
                                ELSE IF k = Len(text) THEN NUL ELSE Unwritten
                  ELSE \A k \in 0..15 : sram.names[16 * slot + k] = Unwritten

\* construct has finished for 12 channels: the last slot holds
\* "Out 12 Mode" and its terminator, and the arena ends where the block ends.
C9_Witness ==
    /\ sram.pc = "done" /\ lastOp = "construct"
    /\ sram.n = kMaxChannels /\ numChannels = kMaxChannels
    /\ sram.names[16 * 35 + 10] = "e"
    /\ sram.names[16 * 35 + 11] = NUL
    /\ sram.pageArr[35] = 42
    /\ sram.paramNames + 16 * 36 = sram.size

\* The pending set holds some kernels of the callback that is running and
\* some of the set that was there when it began.
PendingTorn ==
    /\ callbackPos.pc = "pending"
    /\ ~SameKernels(newKernels, callbackPos.before, kernelSize)
    /\ ~SameKernels(newKernels, FreshKernels(v, kernelSize), kernelSize)

\* C5: a block that runs with crossfading visible as true and convolves
\* reads the pending set, and then every kernel of the pending set is one
\* the publishing callback wrote: the set is not partly rewritten.
C5_PendingCompleteWhenRead ==
    [][(lastOp' = "step" /\ crossfading /\ wavetableLoaded) => ~PendingTorn]_vars

\* A block has just run while crossfading with the pending set partly
\* rewritten by a callback that had not finished.
C5_TornPendingRead ==
    /\ lastOp = "step"
    /\ wavetableLoaded /\ crossfading
    /\ lastBlock[0].convolved
    /\ PendingTorn

\* The position the claim gives channel ch for the parameter values vv, in
\* 1/PosDen(numChannels): p when spread < 1e-3 or there is one channel,
\* p + s * (ch / (numChannels - 1) - 1/2) otherwise.
SpreadPosition(vv, ch) ==
    LET m == numChannels - 1
    IN  IF vv[kParamSpread] < 1 \/ numChannels = 1
        THEN vv[kParamIndex] * 10 * PosUnit(numChannels)
        ELSE vv[kParamIndex] * 10 * m + (vv[kParamSpread] * 10 * (2 * ch - m)) \div 2

\* Every channel's kernel in ks is the single-position build at the
\* channel's SpreadPosition.
IsSpreadExpansion(ks, vv, size) ==
    \A ch \in 0..(numChannels - 1) : \A i \in 0..(size - 1) :
        ks[ch][i] = buildKernelAtIndex(ZeroKernel, SpreadPosition(vv, ch), size)[i]

\* C11: whenever a kernel set is built (the active set by a parameter change
\* or a first load, the pending set by a reload), every channel's kernel is
\* buildKernel at the position when spread < 1e-3 or there is one channel,
\* and at position + spread * (ch / (numChannels - 1) - 0.5) otherwise.
C11_SpreadExpander ==
    [][ /\ ((lastOp' = "param" /\ UpdateKernelBuilds
                /\ \E p \in KernelParams : ParamNotified(p))
            \/ (lastOp' = "callback" /\ CallbackBuildsActive))
           => IsSpreadExpansion(kernels', v', kernelSize')
        /\ (lastOp' = "callback" /\ CallbackCrossfades)
           => IsSpreadExpansion(newKernels', v', kernelSize') ]_vars

\* Spread was turned up with a table loaded: the two channels' kernels
\* differ, channel 0 built at p - s/2 and channel 1 at p + s/2.
C11_Witness ==
    /\ lastOp = "param" /\ wavetableLoaded /\ UpdateKernelBuilds
    /\ numChannels = 2 /\ v[kParamSpread] = 1000
    /\ \E i \in 0..(kernelSize - 1) : kernels[0][i] # kernels[1][i]
    /\ \A i \in 0..(kernelSize - 1) :
          /\ kernels[0][i] = buildKernelAtIndex(ZeroKernel,
                               v[kParamIndex] * 10 - 5000, kernelSize)[i]
          /\ kernels[1][i] = buildKernelAtIndex(ZeroKernel,
                               v[kParamIndex] * 10 + 5000, kernelSize)[i]

\* C12: the stored mix, and every mix value a block used to blend wetOld
\* and wetNew, lies in [0,1], that is in 0..kCrossfadeDen rate units.
C12_MixInUnitInterval ==
    /\ crossfadeMix \in 0..kCrossfadeDen
    /\ \A ch \in 0..(numChannels - 1) :
          lastBlock[ch].blended =>
             \A j \in 1..Len(lastBlock[ch].mixUsed) :
                lastBlock[ch].mixUsed[j] \in 0..kCrossfadeDen

\* A block began with the mix below 1 and blended a sample with a mix
\* above 1, the ramp having passed 1 inside the block.
C12_MixOvershoots ==
    /\ lastOp = "step"
    /\ \E ch \in 0..(numChannels - 1) :
          /\ lastBlock[ch].blended
          /\ \E j \in 1..Len(lastBlock[ch].mixUsed) :
                lastBlock[ch].mixUsed[j] > kCrossfadeDen

\* C13: in a block that blends, every channel blends sample i with the mix
\* the driver channel uses for sample i.
C13_ChannelsShareRamp ==
    \A ch \in 0..(numChannels - 1) :
        lastBlock[ch].blended =>
           \A j \in 1..Len(lastBlock[ch].mixUsed) :
              lastBlock[ch].mixUsed[j] = lastBlock[0].mixUsed[j]

\* A block blended and a channel after the driver used, for its first
\* sample, the value the ramp had at the end of the driver's block.
C13_LaterChannelAhead ==
    /\ lastOp = "step" /\ numChannels > 1
    /\ lastBlock[0].blended /\ lastBlock[1].blended
    /\ lastBlock[1].mixUsed[1] # lastBlock[0].mixUsed[1]
    /\ lastBlock[1].mixUsed[1] =
          lastBlock[0].mixUsed[Len(lastBlock[0].mixUsed)] + 1

\* The first-load branch of the callback has set wavetableLoaded and has
\* not yet written every channel's active kernel.
ActiveUnfinished ==
    /\ callbackPos.pc = "active"
    /\ ~SameKernels(kernels, FreshKernels(v, kernelSize), kernelSize)

\* C14: a block that convolves (wavetableLoaded seen as true) never runs
\* against an active kernel set the first-load callback is still building.
C14_ActiveBuiltBeforeUsable ==
    [][(lastOp' = "step" /\ wavetableLoaded) => ~ActiveUnfinished]_vars

\* A block has convolved while the first-load callback stood between its
\* store to wavetableLoaded and the end of its build.
C14_ConvolvedUnfinished ==
    /\ lastOp = "step"
    /\ lastBlock[0].convolved
    /\ ~crossfading
    /\ ActiveUnfinished

\* The selector shows wavetable w with the card mounted, no request for w
\* has been made, and the subsystem has refused no request so far.
SelectedUnrequested(w) ==
    /\ cardMounted
    /\ v[kParamWavetable] = w
    /\ request.index # w
    /\ budget.loads < MaxLoads

\* C15: a wavetable selected while the card is mounted is eventually
\* requested from the load subsystem, unless the selector moves on first;
\* a selection made while a callback is pending is not lost.
C15_SelectionEventuallyRequested ==
    \A w \in 0..1 :
        SelectedUnrequested(w) ~> (request.index = w \/ v[kParamWavetable] # w)

\* Nothing is in flight, the last load succeeded, and the table in the
\* buffer is not the one the selector shows.
C15_SelectionLost ==
    /\ cardMounted /\ ~awaitingCallback /\ loadPhase = "none"
    /\ wavetableLoaded /\ ~request.error
    /\ budget.loads < MaxLoads
    /\ wavetableBuffer # v[kParamWavetable]
    /\ request.index # v[kParamWavetable]

\* Every sample channel ch has taken in was processed with the kernelSize of
\* the last block.
HeldFixed(ch) ==
    \A n \in 1..Len(fed[ch]) : fed[ch][n].kernelSize = lastBlock[ch].kernelSize

\* The last K inputs of channel ch as of sample i of the last block, newest
\* first, zeros before the first sample.
LastInputs(ch, i, K) ==
    [j \in 0..(K - 1) |->
        LET n == Len(fed[ch]) - Len(lastBlock[ch].scan) + i - j
        IN  IF n >= 1 THEN fed[ch][n].dry ELSE 0]

\* C16: with kernelSize held at K since construction, at every convolution
\* the entries cursor + K down to cursor + 1 of the channel's delay line are
\* the channel's last K input samples, newest first, with zeros before the
\* first sample.
C16_DualWriteWindow ==
    \A ch \in 0..(numChannels - 1) :
        (lastBlock[ch].convolved /\ HeldFixed(ch)) =>
            \A i \in 1..Len(lastBlock[ch].scan) :
                lastBlock[ch].scan[i] = LastInputs(ch, i, lastBlock[ch].kernelSize)

\* A convolution at a cursor that has wrapped to 0, with more than K samples
\* taken in and a window holding at least three different values.
C16_Witness ==
    /\ lastBlock[0].convolved /\ HeldFixed(0)
    /\ \E i \in 1..Len(lastBlock[0].scan) :
          /\ lastBlock[0].cursor[i] = 0
          /\ Len(fed[0]) - Len(lastBlock[0].scan) + i > lastBlock[0].kernelSize
          /\ Cardinality({lastBlock[0].scan[i][j] :
                            j \in 0..(lastBlock[0].kernelSize - 1)}) >= 3
          /\ lastBlock[0].scan[i] = LastInputs(0, i, lastBlock[0].kernelSize)

\* The bus channel ch reads.
InBus(ch) == v[BaseParam(ch) + kParamInput]

\* C17: what a channel takes in during a block is the content its own input
\* bus had when the block began, whatever the other channels are routed to
\* and write.
C17_OwnInputAtBlockStart ==
    lastOp = "step" =>
        \A ch \in 0..(numChannels - 1) :
            \A j \in 1..Len(lastBlock[ch].dry) :
                lastBlock[ch].dry[j] = PatternSample(2, InBus(ch), j - 1)

\* Channel 1 reads the bus channel 0 writes and takes in channel 0's output
\* of this block instead of the bus content at block start.
C17_ReadsEarlierOutput ==
    /\ lastOp = "step" /\ numChannels > 1
    /\ InBus(1) = OutBus(0) /\ InBus(1) # InBus(0)
    /\ \E j \in 1..Len(lastBlock[1].dry) :
          /\ lastBlock[1].dry[j] # PatternSample(2, InBus(1), j - 1)
          /\ lastBlock[1].dry[j] = lastBlock[0].written[j]

\* float delayLine[kMaxKernelSize * 2]
kDelayLineSize == kMaxKernelSize * 2

\* C18: every delay-line index a block writes or reads lies inside the
\* channel's delay line, and every kernel index it reads lies below the
\* kernelSize of the block.
C18_IndicesInBounds ==
    \A ch \in 0..(numChannels - 1) :
        /\ lastBlock[ch].touched \subseteq 0..(kDelayLineSize - 1)
        /\ lastBlock[ch].taps \subseteq 0..(lastBlock[ch].kernelSize - 1)

\* A convolving block at the largest kernel size whose cursor has reached
\* the last position, so that the top entry of the delay line is in use, in
\* a run in which the kernel size was changed.
C18_Witness ==
    /\ lastOp = "step" /\ lastBlock[0].convolved
    /\ lastBlock[0].kernelSize = kMaxKernelSize
    /\ kDelayLineSize - 1 \in lastBlock[0].touched
    /\ lastBlock[0].taps = 0..(kMaxKernelSize - 1)
    /\ budget.params > 0

\* C19: at the start of every sample of every block the channel's write
\* cursor is at least 0 and below the kernelSize the block runs with.
C19_CursorBelowKernelSize ==
    \A ch \in 0..(numChannels - 1) :
        \A i \in 1..Len(lastBlock[ch].cursor) :
            /\ 0 <= lastBlock[ch].cursor[i]
            /\ lastBlock[ch].cursor[i] < lastBlock[ch].kernelSize

\* The first sample of the block after a change to a smaller kernel size
\* starts with the cursor the larger size left behind.
C19_CursorPastSmallerSize ==
    /\ lastOp = "step"
    /\ Len(fed[0]) > Len(lastBlock[0].cursor)
    /\ fed[0][Len(fed[0]) - Len(lastBlock[0].cursor)].kernelSize
          > lastBlock[0].kernelSize
    /\ lastBlock[0].cursor[1] >= lastBlock[0].kernelSize

\* Idle with a successfully loaded wavetable: no crossfade, no load in
\* flight, and the last load ended without error with usable content.
IdleLoaded ==
    /\ wavetableLoaded /\ ~crossfading
    /\ ~awaitingCallback /\ loadPhase = "none"
    /\ CrossfadeStarts

\* C20: whenever the engine is Idle with a successfully loaded wavetable,
\* the active kernel set is the Spread Expander's result for the current
\* position, spread and kernelSize on the current wavetable buffer.
C20_IdleActiveIsCurrent ==
    IdleLoaded => SameKernels(kernels, FreshKernels(v, kernelSize), kernelSize)

\* A crossfade has just completed and the active set is the pending set
\* built when the crossfade began, not the set of the position edited while
\* the crossfade was in flight.
C20_StaleAfterCrossfade ==
    /\ lastOp = "step" /\ IdleLoaded
    /\ lastBlock[0].blended
    /\ SameKernels(kernels, newKernels, kernelSize)
    /\ ~SameKernels(kernels, FreshKernels(v, kernelSize), kernelSize)

\* The load subsystem takes a request: the buffer goes to it.
LoadTaken == loadPhase' = "reading" /\ loadPhase # "reading"

\* The completion callback is entered.
CallbackEntered == loadPhase = "ready" /\ loadPhase' = "none"

\* C21: at most one wavetable load is outstanding.  A load is outstanding
\* exactly while awaitingCallback is set; a request goes to the load
\* subsystem only from parameterChanged or step, with no callback awaited, no
\* load outstanding and the card mounted; awaitingCallback is set exactly
\* when a request is accepted and cleared exactly by the completion
\* callback; the request is not rewritten while a load is outstanding.
C21_OneLoadOutstanding ==
    [][ /\ awaitingCallback' <=> loadPhase' # "none"
        /\ LoadTaken => /\ ~awaitingCallback /\ loadPhase = "none"
                        /\ cardMounted' /\ awaitingCallback'
                        /\ lastOp' \in {"param", "step"}
        /\ (~awaitingCallback /\ awaitingCallback') <=> LoadTaken
        /\ (awaitingCallback /\ ~awaitingCallback') <=> CallbackEntered
        /\ awaitingCallback => request.index' = request.index ]_vars

\* A second load is outstanding after the first one's callback has run, the
\* selector was changed once more while it is, and the request still names
\* the wavetable of the accepted request.
C21_Witness ==
    /\ lastOp = "param" /\ wavetableLoaded
    /\ awaitingCallback /\ loadPhase = "reading"
    /\ budget.loads = 2
    /\ request.index # v[kParamWavetable]

\* C22: between the acceptance of a load request and its completion
\* callback, a change of position, spread or kernel size builds no kernel:
\* updateKernel returns early and the active set stays as it is.
C22_NoBuildWhileLoading ==
    [][(awaitingCallback /\ \E p \in KernelParams : ParamNotified(p)) =>
          /\ ~UpdateKernelBuilds
          /\ kernels' = kernels
          /\ currentIndexParam' = currentIndexParam]_vars

\* The position was changed while the load subsystem was populating the
\* buffer, and the active set is the one built from the buffer as it stood.
C22_BuiltFromLoadingBuffer ==
    /\ lastOp = "param"
    /\ awaitingCallback /\ loadPhase = "reading" /\ wavetableBuffer = BufLoading
    /\ wavetableLoaded /\ UpdateKernelBuilds
    /\ v[kParamIndex] # DefaultValue(kParamIndex, numChannels)
    /\ currentIndexParam = v[kParamIndex]
    /\ SameKernels(kernels, FreshKernels(v, kernelSize), kernelSize)

====
